---- MODULE Spec2Model ----
(***************************************************************************)
(* Model of the parameter-keyed cache and the staged producer of           *)
(* python/data_gen.py (DataVectorProducer) and of the lookup of            *)
(* python/data_gen/util.py (find_existing_test_data).                      *)
(*                                                                         *)
(* Numbers are integers in units of 1e-4; a value formatted with "{:.3f}"  *)
(* is its number of thousandths.  A path is a sequence of components; a    *)
(* component is a format tag with the formatted values it carries.         *)
(***************************************************************************)
EXTENDS Integers, Sequences, FiniteSets, TLC

VARIABLES cwd, dirs, files, prods, found, pure

vars == <<cwd, dirs, files, prods, found, pure>>

\* Bounds of the model.
MaxProd == 2
MaxSends == 3
MaxNPol == 2
MaxImpulses == 2

----------------------------------------------------------------------------
\* Python values

NoneV == [none |-> TRUE]

Tok(s) == [s |-> s, n |-> 0]

Num(v) == [s |-> "#", n |-> v]

\* A Python int.
PyInt(i) == [s |-> "int", n |-> i]

IsInt(a) == a.s = "int"

IsNumber(a) == a.s \in {"#", "int"}

\* The value of a number in units of 1e-4.
Val(a) == IF IsInt(a) THEN a.n * 10000 ELSE a.n

\* Mutant: every dtype is tagged single.
matlab_dtype_lookup_single ==
    [t \in {"np.float32", "np.float64", "np.complex64", "np.complex128"} |-> "single"]

matlab_dtype_lookup ==
    [t \in {"np.float32", "np.float64", "np.complex64", "np.complex128"} |->
        IF t \in {"np.float32", "np.complex64"} THEN "single" ELSE "double"]

\* A numpy type object such as np.float32.
IsType(a) == a.s \in DOMAIN matlab_dtype_lookup \cup {"np.int16"}

\* A path passed as an argument.
PathArg(p) == [s |-> "path", n |-> 0, p |-> p]

\* "{:.3f}": the sign and the magnitude rounded to thousandths (inputs are
\* never exact ties); a negative value keeps its sign even when it rounds to
\* zero.
F3(v) == [s |-> IF v < 0 THEN "-.3f" ELSE ".3f",
          n |-> ((IF v < 0 THEN -v ELSE v) + 5) \div 10]

\* A path component that is a plain name.
N(s) == [fmt |-> s, vals |-> <<>>]

\* Paths: absolute or relative sequences of components; nil is Python's None.
AbsPath(parts) == [nil |-> FALSE, abs |-> TRUE, parts |-> parts]

RelPath(parts) == [nil |-> FALSE, abs |-> FALSE, parts |-> parts]

NonePath == [nil |-> TRUE, abs |-> FALSE, parts |-> <<>>]

\* os.path.join(a, b)
Join(a, b) == IF b.abs THEN b ELSE [a EXCEPT !.parts = a.parts \o b.parts]

\* The file a path names for the operating system, given the working directory.
Resolve(wd, p) == IF p.abs THEN p ELSE Join(wd, p)

\* os.path.basename(p)
Basename(p) == p.parts[Len(p.parts)]

meta_data_file_name == N("meta.json")

----------------------------------------------------------------------------
\* Filesystem

\* os.path.exists(p)
Exists(wd, ds, fs, p) == Resolve(wd, p) \in ds \/ Resolve(wd, p) \in DOMAIN fs

\* Mutant: only the parents of the directory are made.
MakedirsDirs_parents(wd, p) ==
    LET r == Resolve(wd, p)
    IN  {[r EXCEPT !.parts = SubSeq(r.parts, 1, k)] : k \in 1..(Len(r.parts) - 1)}

\* The directories os.makedirs(p) leaves on disk: p and every ancestor.
MakedirsDirs(wd, p) ==
    LET r == Resolve(wd, p)
    IN  {[r EXCEPT !.parts = SubSeq(r.parts, 1, k)] : k \in 1..Len(r.parts)}

----------------------------------------------------------------------------
\* Keys

Domains == {"time", "freq"}

\* Mutant: the positional parameters of freq in the order of its template.
domain_param_order_template ==
    [time |-> <<"offset", "width">>,
     freq |-> <<"frequency", "bin_offset", "phase">>]

domain_param_order ==
    [time |-> <<"offset", "width">>,
     freq |-> <<"frequency", "phase", "bin_offset">>]

\* The fields of sub_dir_format_map's templates, in template order.
sub_dir_format_fields ==
    [time |-> <<"offset", "width">>,
     freq |-> <<"frequency", "bin_offset", "phase">>]

sub_dir_format_map ==
    [time |-> "o-{offset:.3f}_w-{width:.3f}",
     freq |-> "f-{frequency:.3f}_b-{bin_offset:.3f}_p-{phase:.3f}"]

\* Mutant: only the first field of the template is formatted into the name.
FormatSubDir_first_field(dom, params) ==
    [fmt  |-> sub_dir_format_map[dom],
     vals |-> <<F3(params[sub_dir_format_fields[dom][1]])>>]

\* sub_dir_formatter.format(**params)
FormatSubDir(dom, params) ==
    [fmt  |-> sub_dir_format_map[dom],
     vals |-> [i \in 1..Len(sub_dir_format_fields[dom]) |->
                  F3(params[sub_dir_format_fields[dom][i]])]]

\* os.path.join(base_dir, domain_name, sub_dir)
SubDirFull(base, dom, params) ==
    Join(Join(base, RelPath(<<N(dom)>>)), RelPath(<<FormatSubDir(dom, params)>>))

----------------------------------------------------------------------------
\* Inputs of the model

BaseDirs == {AbsPath(<<N("data")>>)}

Cwds == {AbsPath(<<N("data"), N("time")>>), AbsPath(<<N("work")>>)}

P0 == [offset |-> 1000, width |-> 10000]

Q0 == [frequency |-> 1000, phase |-> 7854, bin_offset |-> 2000]

Params == [time |-> {P0}, freq |-> {Q0}]

\* The same values in the order of the domain's positional parameters.
AsSequence(dom, d) ==
    IF dom = "time" THEN <<d.offset, d.width>>
    ELSE <<d.frequency, d.phase, d.bin_offset>>

\* The argument tuples of the usage docstring of DataVectorProducer.
GenTuple == <<Num(20000), Num(10000000), Tok("np.float32")>>

ChanTuple == <<Num(80000), Tok("8/7"), Tok("./../config/OS_Prototype_FIR_8.mat")>>

SynTuple == <<Num(10240000)>>

DocTuples == <<GenTuple, ChanTuple, SynTuple>>

SendArgs == {GenTuple, ChanTuple, SynTuple}

\* Exit statuses of an external process.
ExitCodes == {0, 1}

----------------------------------------------------------------------------
\* Records on disk

JsonFile(m) == [json |-> TRUE, value |-> m]

\* A metadata record as a completed run is meant to leave it.
SeedMeta(params, tag) ==
    params @@ [input_file       |-> N(tag \o ".input.dump"),
               channelized_file |-> N(tag \o ".channelized.dump"),
               inverted_file    |-> N(tag \o ".inverted.dump")]

SeedDir == SubDirFull(AbsPath(<<N("data")>>), "time", P0)

StrayDir == AbsPath(<<N("work"), FormatSubDir("time", P0)>>)

RecordIn(d) == Join(d, RelPath(<<meta_data_file_name>>))

\* The filesystems a run may start from: nothing cached; one complete cache
\* entry; that entry and a record under another working directory; that
\* record alone; a cache entry whose record does not decode.
InitFS ==
    { [dirs |-> {}, files |-> <<>>],
      [dirs  |-> MakedirsDirs(AbsPath(<<>>), StrayDir),
       files |-> (RecordIn(StrayDir) :> JsonFile(SeedMeta(P0, "stray")))],
      [dirs  |-> MakedirsDirs(AbsPath(<<>>), SeedDir),
       files |-> (RecordIn(SeedDir) :> [json |-> FALSE, value |-> NoneV])],
      [dirs  |-> MakedirsDirs(AbsPath(<<>>), SeedDir),
       files |-> (RecordIn(SeedDir) :> JsonFile(SeedMeta(P0, "seed")))],
      [dirs  |-> MakedirsDirs(AbsPath(<<>>), SeedDir)
                   \cup MakedirsDirs(AbsPath(<<>>), StrayDir),
       files |-> (RecordIn(SeedDir) :> JsonFile(SeedMeta(P0, "seed")))
                   @@ (RecordIn(StrayDir) :> JsonFile(SeedMeta(P0, "stray")))] }

----------------------------------------------------------------------------
\* Reading a metadata record

\* open(path, 'r') and json.load(f)
LoadJson(wd, fs, path) ==
    LET r == Resolve(wd, path)
    IN  IF r \notin DOMAIN fs
        THEN [exc |-> "FileNotFoundError", value |-> NoneV, opened |-> r]
        ELSE IF ~fs[r].json
        THEN [exc |-> "JSONDecodeError", value |-> NoneV, opened |-> r]
        ELSE [exc |-> "none", value |-> fs[r].value, opened |-> r]

\* util.py: meta_data_file_path = os.path.join(sub_dir, meta_data_file_name)
LookupRecordPath(sub_dir) ==
    Join(RelPath(<<sub_dir>>), RelPath(<<meta_data_file_name>>))

\* params as a named mapping, and as an ordered sequence.
Mapping(d) == [keys |-> TRUE, d |-> d, t |-> <<>>]

Sequence(t) == [keys |-> FALSE, d |-> NoneV, t |-> t]

\* find_existing_test_data: arg_order
arg_order ==
    [time |-> <<"offset", "width">>,
     freq |-> <<"frequency", "phase", "bin_offset">>]

\* Mutant: a sequence is read in the order of the subdirectory template.
ParamsDict_template_order(dom, params) ==
    IF ~params.keys
    THEN [name \in {sub_dir_format_fields[dom][i] : i \in 1..Len(sub_dir_format_fields[dom])} |->
            params.t[CHOOSE i \in 1..Len(sub_dir_format_fields[dom]) :
                        sub_dir_format_fields[dom][i] = name]]
    ELSE params.d

\* if not hasattr(params, "keys"): params_dict = {arg_name: params[i] ...}
ParamsDict(dom, params) ==
    IF ~params.keys
    THEN [name \in {arg_order[dom][i] : i \in 1..Len(arg_order[dom])} |->
            params.t[CHOOSE i \in 1..Len(arg_order[dom]) : arg_order[dom][i] = name]]
    ELSE params.d

\* find_existing_test_data(base_dir, domain_name, params)
find_existing_test_data(wd, ds, fs, base, dom, params) ==
    LET sub_dir      == FormatSubDir(dom, ParamsDict(dom, params))
        sub_dir_full == SubDirFull(base, dom, ParamsDict(dom, params))
        r == LoadJson(wd, fs, LookupRecordPath(sub_dir))
    IN  IF Exists(wd, ds, fs, sub_dir_full)
        THEN [called |-> TRUE, hit |-> TRUE, sub_dir_full |-> Resolve(wd, sub_dir_full),
              exc |-> r.exc, value |-> r.value, opened |-> r.opened]
        ELSE [called |-> TRUE, hit |-> FALSE, sub_dir_full |-> Resolve(wd, sub_dir_full),
              exc |-> "none", value |-> NoneV, opened |-> NonePath]

NoLookup ==
    [called |-> FALSE, hit |-> FALSE, sub_dir_full |-> NonePath,
     exc |-> "none", value |-> NoneV, opened |-> NonePath]

----------------------------------------------------------------------------
\* Python calls

\* Whether a call with npos positional arguments and the keywords kw binds to
\* a signature: pos its positional parameters, the first req of them without
\* default, varargs whether it takes *args, kwonly its keyword-only names.
Accepts(sig, npos, kw) ==
    /\ npos <= Len(sig.pos) \/ sig.varargs
    /\ \A i \in 1..sig.req : i <= npos \/ sig.pos[i] \in kw
    /\ kw \subseteq {sig.pos[i] : i \in {j \in 1..Len(sig.pos) : j > npos}} \cup sig.kwonly

\* def generate_test_vector(backend="matlab")
generate_test_vector_sig ==
    [pos |-> <<"backend">>, req |-> 0, varargs |-> FALSE, kwonly |-> {}]

\* def _generate_test_vector(domain_name, n_bins, *args, header_template=None, ...)
inner_generate_test_vector_sig ==
    [pos |-> <<"domain_name", "n_bins">>, req |-> 2, varargs |-> TRUE,
     kwonly |-> {"header_template", "output_file_name", "output_dir", "n_pol", "dtype"}]

\* def channelize(output_file_name=None, output_dir="./", backend="matlab")
channelize_sig ==
    [pos |-> <<"output_file_name", "output_dir", "backend">>, req |-> 0,
     varargs |-> FALSE, kwonly |-> {}]

\* def _channelize(input_data_file_path, channels, os_factor_str, fir_filter_path)
inner_channelize_sig ==
    [pos |-> <<"input_data_file_path", "channels", "os_factor_str", "fir_filter_path">>,
     req |-> 4, varargs |-> FALSE, kwonly |-> {}]

\* Mutant: the keywords of the call are not bound against the signature.
ProducerFactoryCallAccepted_unchecked ==
    Accepts(generate_test_vector_sig, 1, {})

\* The generator factory as the producer calls it:
\* generate_test_vector(self.domain_name, output_dir=output_dir, n_pol=...)
ProducerFactoryCallAccepted ==
    Accepts(generate_test_vector_sig, 1, {"output_dir", "n_pol"})

\* channelize(output_dir=output_dir)
ProducerChannelizeFactoryAccepted ==
    Accepts(channelize_sig, 0, {"output_dir"})

\* A file name: a base and an extension.
FileName(base, ext) == [fmt |-> base.fmt, vals |-> base.vals, ext |-> ext]

\* os.path.splitext(name)[0]
Splitext(name) == [fmt |-> name.fmt, vals |-> name.vals]

\* Mutant: the default name is used whatever name was given.
create_output_file_names_default(output_file_name, default_base) ==
    [output_base      |-> default_base,
     log_file_name    |-> FileName(default_base, ".log"),
     output_file_name |-> FileName(default_base, ".dump")]

\* _create_output_file_names(output_file_name, default_base)
create_output_file_names(output_file_name, default_base) ==
    IF output_file_name = NoneV
    THEN [output_base      |-> default_base,
          log_file_name    |-> FileName(default_base, ".log"),
          output_file_name |-> FileName(default_base, ".dump")]
    ELSE [output_base      |-> Splitext(output_file_name),
          log_file_name    |-> FileName(Splitext(output_file_name), ".log"),
          output_file_name |-> output_file_name]

\* sep.join([f"{f:.3f}" for f in args])
ArgsStr(sep, args) ==
    [s |-> "join", n |-> 0, sep |-> sep,
     items |-> [k \in 1..Len(args) |-> F3(Val(args[k]))]]

\* matlab_domain_name_map, and the __name__ of func_lookup's functions
FuncName(dom) == IF dom = "time" THEN "time_domain_impulse" ELSE "complex_sinusoid"

\* output_base_template formatted twice: with the arguments, then with func_name
OutputBase(backend, dom, n_bins, args, n_pol, dtype) ==
    [fmt  |-> "{func_name}.{n_bins}.{args}.{n_pol}.{dtype}.{backend}",
     vals |-> <<Tok(FuncName(dom)), n_bins, ArgsStr("-", args), n_pol,
                Tok(matlab_dtype_lookup[dtype.s]), Tok(backend)>>]

\* time_domain_impulse(n, offsets, widths, dtype=dtype) and
\* complex_sinusoid(n, freqs, phases, bin_offset, dtype=dtype), then
\* np.zeros((sig.shape[0], 1, n_pol)): whether the call raises TypeError.
\* The length is an int, a width is a slice bound and so an int, and a complex
\* exponential is not added into a real array.
SignalRaises(dom, n_bins, args, n_pol, dtype) ==
    \/ ~IsInt(n_bins)
    \/ dom = "time" /\ (Len(args) # 2 \/ ~IsInt(args[2]))
    \/ dom = "freq" /\ (Len(args) \notin {2, 3}
                           \/ dtype.s \in {"np.float32", "np.float64"})
    \/ ~IsInt(n_pol)

\* shlex.split of a command line: the pieces an f-string puts between two
\* spaces make one token, and a token that is the empty string disappears.
\* A command line is given as its tokens, each the sequence of its pieces.
Token(piece) == <<piece>>

\* os.path.join(build_dir, matlab_cmd_str)
Executable(matlab_cmd_str) == Tok("build/" \o matlab_cmd_str)

\* os.path.join(config_dir, config["header_file_path"])
HeaderTemplate == Tok("config/header_file_path")

\* cmd_str of _generate_test_vector
GenerateCmd(dom, n_bins, args, n_pol, dtype, output_file_name, output_dir) ==
    <<Token(Executable("generate_test_vector")), Token(Tok(FuncName(dom))), Token(n_bins)>>
      \o (IF args = <<>> THEN <<>> ELSE <<Token(ArgsStr(",", args))>>)
      \o <<Token(Tok(matlab_dtype_lookup[dtype.s])), Token(n_pol), Token(HeaderTemplate),
           Token(output_file_name), Token(output_dir), Token(Tok("1"))>>

\* The keyword arguments of _generate_test_vector at their defaults.
GenDefaults ==
    [output_file_name |-> NoneV, output_dir |-> RelPath(<<>>),
     n_pol |-> PyInt(1), dtype |-> Tok("np.complex64")]

\* The inner generator called with the positional list targs and the keywords
\* kw, under the backend its factory was given: the arguments after n_bins are
\* formatted with .3f and the dtype is looked up before the backend is tested;
\* the matlab branch opens the log file and runs the external process, whose
\* exit status is exit; the python branch builds the signal and dumps it; a
\* backend other than "matlab" and "python" matches neither branch, so the
\* function returns None.
inner_generate_test_vector(backend, targs, kw, exit) ==
    LET args  == SubSeq(targs, 3, Len(targs))
        dom   == targs[1].s
        names == create_output_file_names(kw.output_file_name,
                     OutputBase(backend, dom, targs[2], args, kw.n_pol, kw.dtype))
        log   == Join(kw.output_dir, RelPath(<<names.log_file_name>>))
        out   == Join(kw.output_dir, RelPath(<<names.output_file_name>>))
        cmd   == GenerateCmd(dom, targs[2], args, kw.n_pol, kw.dtype,
                             names.output_file_name, kw.output_dir)
    IN  IF ~Accepts(inner_generate_test_vector_sig, Len(targs), {})
        THEN [exc |-> "TypeError", value |-> NonePath, created |-> {}]
        ELSE IF \E k \in 3..Len(targs) : ~IsNumber(targs[k])
        THEN LET k == CHOOSE j \in 3..Len(targs) :
                          ~IsNumber(targs[j]) /\ \A i \in 3..(j - 1) : IsNumber(targs[i])
             IN  [exc |-> IF IsType(targs[k]) THEN "TypeError" ELSE "ValueError",
                  value |-> NonePath, created |-> {}]
        ELSE IF kw.dtype.s \notin DOMAIN matlab_dtype_lookup
        THEN [exc |-> "KeyError", value |-> NonePath, created |-> {}]
        ELSE IF backend \in {"matlab", "python"} /\ dom \notin Domains
        THEN [exc |-> "KeyError", value |-> NonePath, created |-> {}]
        ELSE IF backend = "matlab" /\ exit # 0
        THEN [exc |-> "RuntimeError", value |-> NonePath, created |-> {log}, cmd |-> cmd]
        ELSE IF backend = "matlab"
        THEN [exc |-> "none", value |-> out, created |-> {log, out}, cmd |-> cmd]
        ELSE IF backend = "python" /\ SignalRaises(dom, targs[2], args, kw.n_pol, kw.dtype)
        THEN [exc |-> "TypeError", value |-> NonePath, created |-> {}]
        ELSE IF backend = "python"
        THEN [exc |-> "none", value |-> out, created |-> {out}]
        ELSE [exc |-> "none", value |-> NonePath, created |-> {}]

\* The log file _run_cmd opens for channelize's default output base.
ChannelizeLogFile(output_dir, cargs) ==
    Join(output_dir, RelPath(<<[fmt  |-> "channelize.{channels}.{os_factor_str}.log",
                                vals |-> <<cargs[2], cargs[3]>>]>>))

\* The output file name _create_output_file_names gives channelize by default.
ChannelizeOutputName(cargs) ==
    [fmt  |-> "channelize.{channels}.{os_factor_str}.dump",
     vals |-> <<cargs[2], cargs[3]>>]

\* cmd_str of _channelize: no space separates fir_filter_path from the output
\* file name.
ChannelizeCmd(cargs, output_dir) ==
    <<Token(Executable("channelize")), Token(cargs[1]), Token(cargs[2]), Token(cargs[3]),
      <<cargs[4], ChannelizeOutputName(cargs)>>, Token(output_dir), Token(Tok("1"))>>

\* The matlab _channelize called with the positional list cargs: os_factor_str
\* is split as a string, _run_cmd opens the log file and raises on a non-zero
\* exit status; the closure's output_file_name is None, and it is that name
\* the return statement joins.
inner_channelize(cargs, output_dir, exit) ==
    IF ~Accepts(inner_channelize_sig, Len(cargs), {})
    THEN [exc |-> "TypeError", value |-> NonePath, created |-> {}]
    ELSE IF IsNumber(cargs[3])
    THEN [exc |-> "AttributeError", value |-> NonePath, created |-> {}]
    ELSE IF exit # 0
    THEN [exc |-> "RuntimeError", value |-> NonePath,
          created |-> {ChannelizeLogFile(output_dir, cargs)},
          cmd |-> ChannelizeCmd(cargs, output_dir)]
    ELSE [exc |-> "TypeError", value |-> NonePath,
          created |-> {ChannelizeLogFile(output_dir, cargs)},
          cmd |-> ChannelizeCmd(cargs, output_dir)]

\* def _synthesize(input_data_file_path, input_fft_length)
inner_synthesize_sig ==
    [pos |-> <<"input_data_file_path", "input_fft_length">>, req |-> 2,
     varargs |-> FALSE, kwonly |-> {}]

\* The matlab _synthesize: its first statement reads output_file_name, which
\* the function assigns further down and is therefore a local not yet bound.
inner_synthesize(sargs) ==
    IF ~Accepts(inner_synthesize_sig, Len(sargs), {})
    THEN [exc |-> "TypeError", value |-> NonePath, created |-> {}]
    ELSE [exc |-> "UnboundLocalError", value |-> NonePath, created |-> {}]

\* backend == "python": def _channelize(channels, os_factor_str, fir_filter_path)
python_channelize_sig ==
    [pos |-> <<"channels", "os_factor_str", "fir_filter_path">>, req |-> 3,
     varargs |-> FALSE, kwonly |-> {}]

\* backend == "python": def _synthesize(input_fft_length)
python_synthesize_sig ==
    [pos |-> <<"input_fft_length">>, req |-> 1, varargs |-> FALSE, kwonly |-> {}]

\* The python _channelize and _synthesize: the arguments are bound, then the
\* body raises NotImplementedError.
python_stage(sig, sargs) ==
    IF ~Accepts(sig, Len(sargs), {})
    THEN [exc |-> "TypeError", value |-> NonePath, created |-> {}]
    ELSE [exc |-> "NotImplementedError", value |-> NonePath, created |-> {}]

\* channelize(output_dir=output_dir, backend=backend)(*sargs) and
\* synthesize(output_dir=output_dir, backend=backend)(*sargs)
StageCall(which, backend, sargs, output_dir, exit) ==
    CASE backend = "python" /\ which = "channelize" -> python_stage(python_channelize_sig, sargs)
      [] backend = "python" /\ which = "synthesize" -> python_stage(python_synthesize_sig, sargs)
      [] backend = "matlab" /\ which = "channelize" -> inner_channelize(sargs, output_dir, exit)
      [] OTHER -> inner_synthesize(sargs)

\* int(x) of the quotient a/b: truncation toward zero.
TruncDiv(a, b) == IF a >= 0 THEN a \div b ELSE -((-a) \div b)

\* complex_sinusoid, one tone: the bin int(n*freqs[i]) and the frequency
\* int(n*freqs[i]) + bin_offset in units of 1e-4 (freq and bin_offset are in
\* units of 1e-4, the product is taken exactly).
complex_sinusoid(n, freq, bin_offset) ==
    [bin  |-> TruncDiv(n * freq, 10000),
     tone |-> TruncDiv(n * freq, 10000) * 10000 + bin_offset]

\* An argument that is a scalar, and one that is a list.
Scalar(v) == [iter |-> FALSE, items |-> <<v>>]

List(vs) == [iter |-> TRUE, items |-> vs]

\* Mutant: the impulse is added to the samples of the slice.
SliceAssign_add(sig, offset, width) ==
    [j \in 1..Len(sig) |->
        IF offset <= j - 1 /\ j - 1 < offset + width THEN sig[j] + 1 ELSE sig[j]]

\* sig[offset: offset+width] = 1.0, the slice clipped to the array
SliceAssign(sig, offset, width) ==
    [j \in 1..Len(sig) |->
        IF offset <= j - 1 /\ j - 1 < offset + width THEN 1 ELSE sig[j]]

\* for i in range(len(offsets)): offset = int(offsets[i]*n); ...
RECURSIVE ImpulseLoop(_, _, _, _, _)
ImpulseLoop(sig, n, offsets, widths, i) ==
    IF i > Len(offsets) THEN sig
    ELSE ImpulseLoop(SliceAssign(sig, TruncDiv(offsets[i] * n, 10000), widths[i]),
                     n, offsets, widths, i + 1)

\* time_domain_impulse(n, offsets, widths): an offsets that is not iterable
\* wraps both arguments in a list; a scalar widths beside a list of offsets
\* cannot be indexed, a list widths beside a scalar offsets is no slice bound,
\* and a widths shorter than offsets runs out.  Offsets are in units of 1e-4.
time_domain_impulse(n, offsets, widths) ==
    LET zeros == [j \in 1..n |-> 0]
    IN  IF ~offsets.iter /\ widths.iter
        THEN [exc |-> "TypeError", sig |-> <<>>]
        ELSE IF offsets.iter /\ ~widths.iter /\ Len(offsets.items) > 0
        THEN [exc |-> "TypeError", sig |-> <<>>]
        ELSE IF offsets.iter /\ widths.iter /\ Len(widths.items) < Len(offsets.items)
        THEN [exc |-> "IndexError", sig |-> <<>>]
        ELSE [exc |-> "none",
              sig |-> ImpulseLoop(zeros, n, offsets.items, widths.items, 1)]

----------------------------------------------------------------------------
\* DataVectorProducer

\* coro: next(ret) on the fresh generator.  A generator that suspends lets the
\* constructor return; one that finishes makes next() raise StopIteration.
Coro(status, exc) ==
    CASE status = "yield"  -> "returned"
      [] status = "return" -> "StopIteration"
      [] OTHER             -> exc

\* generator.send(args): what the caller of send() gets.
SendOutcome(status, exc) ==
    CASE status = "yield"  -> "none"
      [] status = "return" -> "StopIteration"
      [] OTHER             -> exc

\* __init__ and the first lines of data_vector_producer, up to the test
\* os.path.exists(sub_dir_full).
NewProducer(wd, ds, fs, base, dom, params) ==
    [base_dir |-> base, domain_name |-> dom, params |-> params,
     meta_data |-> NoneV,
     sub_dir |-> FormatSubDir(dom, params),
     sub_dir_full |-> SubDirFull(base, dom, params),
     pc |-> IF Exists(wd, ds, fs, SubDirFull(base, dom, params))
            THEN "load" ELSE "makedirs",
     ctor |-> "running",
     l_meta_data |-> NoneV,
     input_file_path |-> NonePath,
     channelized_file_path |-> NonePath,
     synthesized_file_path |-> NonePath,
     f |-> "",
     test_vector_args |-> <<>>,
     opened |-> NonePath,
     calls |-> <<>>,
     sends |-> <<>>,
     docs |-> TRUE]

\* data_gen.py: meta_data_file_path = os.path.join(sub_dir, meta_data_file_name)
ProducerRecordPath(self) ==
    Join(RelPath(<<self.sub_dir>>), RelPath(<<meta_data_file_name>>))

\* The hit branch: read the record, set self.meta_data, and fall off the end of
\* the generator.
ProducerLoad(self, wd, fs) ==
    LET r == LoadJson(wd, fs, ProducerRecordPath(self))
    IN  IF r.exc # "none"
        THEN [self EXCEPT !.opened = r.opened, !.pc = "failed",
                          !.ctor = Coro("raise", r.exc)]
        ELSE [self EXCEPT !.opened = r.opened, !.meta_data = r.value,
                          !.pc = "hit", !.ctor = Coro("return", "none")]

\* Mutant: the copy of the parameters is published as self.meta_data at once.
CopyParams_publish(self) ==
    [self EXCEPT !.l_meta_data = self.params, !.meta_data = self.params]

\* meta_data = self.params.copy()
CopyParams(self) == [self EXCEPT !.l_meta_data = self.params]

\* Mutant: os.makedirs(sub_dir_full, exist_ok=True).
ProducerMakedirs_exist_ok(self, wd, ds, fs) ==
    [CopyParams(self) EXCEPT !.pc = "yield_gen", !.ctor = Coro("yield", "none")]

\* The miss branch up to the first yield: os.makedirs(sub_dir_full), which
\* raises when the directory exists by now.
ProducerMakedirs(self, wd, ds, fs) ==
    IF Exists(wd, ds, fs, self.sub_dir_full)
    THEN [self EXCEPT !.pc = "failed", !.ctor = Coro("raise", "FileExistsError")]
    ELSE [CopyParams(self) EXCEPT !.pc = "yield_gen", !.ctor = Coro("yield", "none")]

\* test_vector_args.pop(0), then insert(i+1, v) for each parameter value.
InsertParams(args, vector_params) ==
    LET rest == Tail(args)
    IN  IF rest = <<>> THEN vector_params
        ELSE <<Head(rest)>> \o vector_params \o Tail(rest)

\* [self.params[p] for p in self.domain_param_order[self.domain_name]]
VectorParams(self) ==
    [i \in 1..Len(domain_param_order[self.domain_name]) |->
        Num(self.params[domain_param_order[self.domain_name][i]])]

Call(stage, callee, args, exc) ==
    [stage |-> stage, callee |-> callee, args |-> args, exc |-> exc]

Raise(self, exc, created) ==
    [self |-> self, status |-> "raise", exc |-> exc, created |-> created]

Yield(self, created) ==
    [self |-> self, status |-> "yield", exc |-> "none", created |-> created]

\* From the first yield to the second: the generate stage.
RunGenerate(self, args, exit) ==
    LET targs == InsertParams(args, VectorParams(self))
        r == inner_generate_test_vector(self.domain_name, targs, GenDefaults, exit)
    IN  IF args = <<>>
        THEN Raise(self, "IndexError", {})
        ELSE IF ~ProducerFactoryCallAccepted
        THEN Raise([self EXCEPT !.test_vector_args = <<args>>, !.calls = Append(@,
                        Call("generate", "generate_test_vector", <<>>, "TypeError"))],
                   "TypeError", {})
        ELSE IF r.exc # "none"
        THEN Raise([self EXCEPT !.test_vector_args = <<args>>, !.calls = Append(@,
                        Call("generate", "_generate_test_vector", targs, r.exc))],
                   r.exc, r.created)
        ELSE IF ~ProducerChannelizeFactoryAccepted
        THEN Raise([self EXCEPT
                        !.test_vector_args = <<args>>,
                        !.calls = Append(@,
                            Call("generate", "_generate_test_vector", targs, "none")),
                        !.input_file_path = r.value],
                   "TypeError", r.created)
        ELSE Yield([self EXCEPT
                        !.test_vector_args = <<args>>,
                        !.calls = Append(@,
                            Call("generate", "_generate_test_vector", targs, "none")),
                        !.input_file_path = r.value,
                        !.f = "_channelize",
                        !.pc = "yield_chan"], r.created)

\* From the second yield to the third: f(*channelized_args), f being _channelize.
RunChannelize(self, args, exit) ==
    LET r == inner_channelize(args, self.sub_dir_full, exit)
        called == [self EXCEPT !.calls = Append(@, Call("channelize", self.f, args, r.exc))]
    IN  IF r.exc # "none"
        THEN Raise(called, r.exc, r.created)
        ELSE Yield([called EXCEPT !.channelized_file_path = r.value,
                                  !.pc = "yield_syn"], r.created)

\* From the third yield to the end: f(*synthesized_args), f still being
\* _channelize; then the three basenames and self.meta_data.
RunSynthesize(self, args, exit) ==
    LET sargs == <<PathArg(self.channelized_file_path)>> \o args
        r == inner_channelize(sargs, self.sub_dir_full, exit)
        called == [self EXCEPT !.calls = Append(@, Call("synthesize", self.f, sargs, r.exc))]
    IN  IF r.exc # "none"
        THEN Raise(called, r.exc, r.created)
        ELSE IF self.input_file_path.nil \/ self.channelized_file_path.nil \/ r.value.nil
        THEN Raise([called EXCEPT !.synthesized_file_path = r.value], "TypeError", r.created)
        ELSE [self |-> [called EXCEPT
                  !.synthesized_file_path = r.value,
                  !.l_meta_data = @ @@
                      [input_file       |-> Basename(self.input_file_path),
                       channelized_file |-> Basename(self.channelized_file_path),
                       inverted_file    |-> Basename(r.value)],
                  !.meta_data = self.l_meta_data @@
                      [input_file       |-> Basename(self.input_file_path),
                       channelized_file |-> Basename(self.channelized_file_path),
                       inverted_file    |-> Basename(r.value)],
                  !.pc = "done"],
              status |-> "return", exc |-> "none", created |-> r.created]

\* Mutant: a send to an exhausted generator publishes the copied parameters.
Exhausted_publish(self) ==
    [self |-> [self EXCEPT !.meta_data = self.l_meta_data],
     status |-> "return", exc |-> "none", created |-> {}]

\* Mutant: a send to an exhausted generator starts the pipeline over.
Exhausted_retry(self) ==
    [self |-> [self EXCEPT !.calls = Append(@,
                  Call("generate", "generate_test_vector", <<>>, "TypeError"))],
     status |-> "raise", exc |-> "TypeError", created |-> {}]

\* A generator that has returned or raised is exhausted: send() raises
\* StopIteration and runs nothing.
Exhausted(self) ==
    [self |-> self, status |-> "return", exc |-> "none", created |-> {}]

\* self.sink.send(args): the generator body from its suspension point.
Body(self, args, exit) ==
    CASE self.pc = "yield_gen"  -> RunGenerate(self, args, exit)
      [] self.pc = "yield_chan" -> RunChannelize(self, args, exit)
      [] self.pc = "yield_syn"  -> RunSynthesize(self, args, exit)
      [] OTHER                  -> Exhausted(self)

\* send(*args), with what the caller observes recorded on the producer.
Resume(self, args, exit) ==
    LET b == Body(self, args, exit)
        after == IF b.status = "raise" THEN [b.self EXCEPT !.pc = "failed"] ELSE b.self
    IN  [self |-> [after EXCEPT
                     !.sends = Append(@, SendOutcome(b.status, b.exc)),
                     !.docs = /\ self.docs
                              /\ Len(self.sends) < Len(DocTuples)
                              /\ args = DocTuples[Len(self.sends) + 1]],
         created |-> b.created]

----------------------------------------------------------------------------
\* Actions

\* The forms in which a lookup is given the parameters of a key.
ParamForms(dom) ==
    {Mapping(d) : d \in Params[dom]} \cup {Sequence(AsSequence(dom, d)) : d \in Params[dom]}

\* No function has been applied on its own.
NoPure == [op |-> "none", in |-> NoneV, out |-> NoneV]

Init ==
    /\ cwd \in Cwds
    /\ \E fs0 \in InitFS : dirs = fs0.dirs /\ files = fs0.files
    /\ prods = <<>>
    /\ found = NoLookup
    /\ pure = NoPure

\* Mutant: a lookup that misses makes the subdirectory of the key.
FindExisting_makedirs ==
    \E base \in BaseDirs, dom \in Domains :
      \E params \in ParamForms(dom) :
        /\ found' = find_existing_test_data(cwd, dirs, files, base, dom, params)
        /\ dirs' = IF found'.hit THEN dirs
                   ELSE dirs \cup MakedirsDirs(cwd, found'.sub_dir_full)
        /\ UNCHANGED <<cwd, files, prods, pure>>

\* find_existing_test_data(base_dir, domain_name, params)
FindExisting ==
    \E base \in BaseDirs, dom \in Domains :
      \E params \in ParamForms(dom) :
        /\ found' = find_existing_test_data(cwd, dirs, files, base, dom, params)
        /\ UNCHANGED <<cwd, dirs, files, prods, pure>>

\* DataVectorProducer(base_dir, domain_name, params), up to the existence test.
Construct ==
    \E base \in BaseDirs, dom \in Domains :
      \E params \in Params[dom] :
        /\ Len(prods) < MaxProd
        /\ prods' = Append(prods, NewProducer(cwd, dirs, files, base, dom, params))
        /\ UNCHANGED <<cwd, dirs, files, found, pure>>

\* The hit branch of the constructor.
ConstructLoad ==
    \E i \in 1..Len(prods) :
        /\ prods[i].pc = "load"
        /\ prods' = [prods EXCEPT ![i] = ProducerLoad(prods[i], cwd, files)]
        /\ UNCHANGED <<cwd, dirs, files, found, pure>>

\* The miss branch of the constructor.
ConstructMakedirs ==
    \E i \in 1..Len(prods) :
        /\ prods[i].pc = "makedirs"
        /\ prods' = [prods EXCEPT ![i] = ProducerMakedirs(prods[i], cwd, dirs, files)]
        /\ dirs' = IF prods'[i].ctor = "returned"
                   THEN dirs \cup MakedirsDirs(cwd, prods[i].sub_dir_full)
                   ELSE dirs
        /\ UNCHANGED <<cwd, files, found, pure>>

\* prod.send(*args) on a producer the constructor returned.
\* The number of sends of a run, over all its producers.
RECURSIVE TotalSends(_)
TotalSends(ps) ==
    IF ps = <<>> THEN 0 ELSE Len(Head(ps).sends) + TotalSends(Tail(ps))

Send ==
    \E i \in 1..Len(prods), args \in SendArgs \cup {<<>>} :
      \E exit \in IF prods[i].pc \in {"yield_gen", "yield_chan", "yield_syn"}
                   THEN ExitCodes ELSE {0} :
        /\ prods[i].ctor = "returned"
        /\ TotalSends(prods) < MaxSends
        /\ LET r == Resume(prods[i], args, exit)
           IN  /\ prods' = [prods EXCEPT ![i] = r.self]
               /\ files' = [p \in r.created |-> [json |-> FALSE, value |-> NoneV]] @@ files
        /\ UNCHANGED <<cwd, dirs, found, pure>>

Next == FindExisting \/ Construct \/ ConstructLoad \/ ConstructMakedirs \/ Send

Spec == Init /\ [][Next]_vars

----------------------------------------------------------------------------
\* The functions of the module applied on their own

\* Parameter values: some that differ only beyond the third decimal place,
\* some of either sign that round to zero.
TimeParams == [offset : {1000, 1004, 4, -4}, width : {10000, 20000}]

FreqParams == [frequency : {1000, 1004}, phase : {7854, 2000}, bin_offset : {2000, 7854}]

ParamsOf(dom) == IF dom = "time" THEN TimeParams ELSE FreqParams

\* Two parameter sets of one domain: a, whose subdirectory a producer has
\* made, and b, which is then looked up.
KeyInputs ==
    UNION {[kind : {"key"}, base : BaseDirs, dom : {dom}, a : ParamsOf(dom), b : ParamsOf(dom)] :
              dom \in Domains}

\* The key of a as the producer formats it, the positional parameters the
\* producer takes from a, and the lookups of b in both forms once the
\* subdirectory of a exists.
KeyOutput(in) ==
    LET made == dirs \cup MakedirsDirs(cwd, SubDirFull(in.base, in.dom, in.a))
    IN  [sub_dir_a      |-> FormatSubDir(in.dom, in.a),
         sub_dir_full_a |-> Resolve(cwd, SubDirFull(in.base, in.dom, in.a)),
         sub_dir_full_b |-> Resolve(cwd, SubDirFull(in.base, in.dom, in.b)),
         vector_params  |-> VectorParams([domain_name |-> in.dom, params |-> in.a]),
         by_mapping     |-> find_existing_test_data(cwd, made, files, in.base, in.dom,
                                                    Mapping(in.b)),
         by_sequence    |-> find_existing_test_data(cwd, made, files, in.base, in.dom,
                                                    Sequence(AsSequence(in.dom, in.b)))]

Applied(kind, out) ==
    /\ pure.op = "input"
    /\ pure.in.kind = kind
    /\ pure' = [op |-> kind, in |-> pure.in, out |-> out]
    /\ UNCHANGED <<cwd, dirs, files, prods, found>>

ApplyKey == Applied("key", KeyOutput(pure.in))

\* Calls of the generator: a width that is an int or a float, three or one
\* arguments of complex_sinusoid, the four dtypes of matlab_dtype_lookup and
\* one outside it, the default output name and given ones.
GenArgs ==
    {[dom |-> "time", args |-> <<Num(1000), PyInt(1)>>],
     [dom |-> "time", args |-> <<Num(1000), Num(10000)>>],
     [dom |-> "freq", args |-> <<Num(1000), Num(7854), Num(1000)>>],
     [dom |-> "freq", args |-> <<Num(1000)>>]}

GivenNames ==
    {[fmt |-> "complex_sinusoid", vals |-> <<>>, ext |-> ".dump"],
     [fmt |-> "vector", vals |-> <<>>, ext |-> ""]}

GenInputs ==
    [kind : {"generate"}, backend : {"matlab", "python"}, da : GenArgs,
     n_bins : {PyInt(1000)}, n_pol : {PyInt(k) : k \in 1..MaxNPol},
     dtype : {Tok(t) : t \in DOMAIN matlab_dtype_lookup \cup {"np.int16"}},
     output_file_name : {NoneV} \cup GivenNames,
     output_dir : {RelPath(<<N("out")>>)}, exit : ExitCodes]

\* generate_test_vector(backend)(dom, n_bins, *args, output_file_name=...,
\* output_dir=..., n_pol=..., dtype=...)
GenOutput(in) ==
    inner_generate_test_vector(in.backend, <<Tok(in.da.dom), in.n_bins>> \o in.da.args,
        [output_file_name |-> in.output_file_name, output_dir |-> in.output_dir,
         n_pol |-> in.n_pol, dtype |-> in.dtype], in.exit)

ApplyGenerate == Applied("generate", GenOutput(pure.in))

\* A stage's argument tuple as the caller sends it and as the sequencer hands
\* it to the stage, the path of the previous stage's file in front.
InputFile == PathArg(RelPath(<<N("single_channel.dump")>>))

StageTuples ==
    {ChanTuple, <<InputFile>> \o ChanTuple, SynTuple, <<InputFile>> \o SynTuple, <<>>}

StageInputs ==
    [kind : {"stage"}, which : {"channelize", "synthesize"}, backend : {"matlab", "python"},
     sargs : StageTuples, output_dir : {RelPath(<<N("out")>>)}, exit : ExitCodes]

ApplyStage ==
    Applied("stage", StageCall(pure.in.which, pure.in.backend, pure.in.sargs,
                               pure.in.output_dir, pure.in.exit))

\* Lengths, and fractional frequencies in units of 1e-4 whose product with
\* the length has a fractional part below, at and above one half.
SinusoidInputs ==
    [kind : {"sinusoid"}, n : {8, 1000}, freq : {0, 1000, 106, 104, 625, 9999, -106},
     bin_offset : {0, 1000}]

ApplySinusoid ==
    Applied("sinusoid", complex_sinusoid(pure.in.n, pure.in.freq, pure.in.bin_offset))

\* Sequences of at most MaxImpulses elements of S.
ListsOf(S) == UNION {[1..k -> S] : k \in 0..MaxImpulses}

\* Offsets in units of 1e-4 and widths, as scalars and as lists.
ImpulseInputs ==
    [kind : {"impulse"}, n : {4, 10},
     offsets : {Scalar(o) : o \in {0, 2000, 2500, 9000}}
                  \cup {List(l) : l \in ListsOf({0, 2000, 2500, 9000})},
     widths  : {Scalar(w) : w \in {0, 1, 3}} \cup {List(l) : l \in ListsOf({0, 1, 3})}]

ApplyImpulse ==
    Applied("impulse", time_domain_impulse(pure.in.n, pure.in.offsets, pure.in.widths))

PureInputs ==
    KeyInputs \cup GenInputs \cup StageInputs \cup SinusoidInputs \cup ImpulseInputs

\* One function is applied to one input; a lookup may meet any of the initial
\* filesystems, the other functions start from an empty one.
InitPure ==
    \E x \in PureInputs, c \in Cwds, fs \in InitFS :
        /\ x.kind # "key" => (c = AbsPath(<<N("work")>>) /\ fs.dirs = {})
        /\ cwd = c
        /\ dirs = fs.dirs
        /\ files = fs.files
        /\ prods = <<>>
        /\ found = NoLookup
        /\ pure = [op |-> "input", in |-> x, out |-> NoneV]

NextPure == ApplyKey \/ ApplyGenerate \/ ApplyStage \/ ApplySinusoid \/ ApplyImpulse

SpecPure == InitPure /\ [][NextPure]_vars

----------------------------------------------------------------------------
\* Vocabulary of the properties

Producers == {prods[i] : i \in 1..Len(prods)}

\* Every cache subdirectory base_dir/domain/<formatted-params> of the inputs.
CacheSubDirs ==
    UNION {{Resolve(cwd, SubDirFull(b, dom, pr)) : pr \in Params[dom]} :
              b \in BaseDirs, dom \in Domains}

\* The metadata record of a producer's key.
RecordOf(p) == RecordIn(Resolve(cwd, p.sub_dir_full))

FileFields == {"input_file", "channelized_file", "inverted_file"}

\* The caller followed the usage docstring for the first k sends.
Documented(p, k) == p.ctor = "returned" /\ p.docs /\ Len(p.sends) >= k

\* No external process returned a non-zero exit status.
NoToolFailure(p) == \A k \in 1..Len(p.calls) : p.calls[k].exc # "RuntimeError"

\* The stage an invoked callable implements.
StageOf(c) ==
    CASE c.callee \in {"generate_test_vector", "_generate_test_vector"} -> 1
      [] c.callee = "_channelize" -> 2
      [] OTHER -> 3

\* The producer went down the miss branch of the constructor.
OnMiss(p) == p.pc \notin {"load", "hit"} /\ p.opened = NonePath

----------------------------------------------------------------------------
\* Properties

\* C1: whenever the cache subdirectory of a key exists, a meta.json record
\* exists inside it.
C1_SubDirHasRecord ==
    \A d \in CacheSubDirs : d \in dirs => RecordIn(d) \in DOMAIN files

\* C2: on a miss, once the three documented tuples were sent and no external
\* process failed, the sequencer is at DONE and the assembled Metadata is
\* persisted as the meta.json record of the key.
C2_DonePersistsRecord ==
    \A p \in Producers :
        (Documented(p, 3) /\ NoToolFailure(p)) =>
            /\ p.pc = "done"
            /\ RecordOf(p) \in DOMAIN files
            /\ files[RecordOf(p)] = JsonFile(p.meta_data)

\* C3: a request that follows a completed run of the pipeline for the same key
\* goes down the lookup path and returns the Metadata of that run.
C3_SecondRequestReturnsSame ==
    [][\A i \in 1..Len(prods) :
          (Documented(prods[i], 3) /\ NoToolFailure(prods[i])) =>
            /\ (found' # found
                  /\ found'.sub_dir_full = Resolve(cwd, prods[i].sub_dir_full)) =>
                 (found'.hit /\ found'.exc = "none"
                    /\ found'.value # NoneV /\ found'.value = prods[i].meta_data)
            /\ (Len(prods') > Len(prods)
                  /\ prods'[Len(prods')].sub_dir_full = prods[i].sub_dir_full) =>
                 prods'[Len(prods')].pc = "load"]_vars

\* C4: the record a lookup reads is meta.json inside the subdirectory whose
\* existence it tested.
C4_ReadsRecordInsideSubDir ==
    /\ (found.called /\ found.hit) => found.opened = RecordIn(found.sub_dir_full)
    /\ \A p \in Producers : p.opened # NonePath => p.opened = RecordOf(p)

\* C5: per producer, the stages are invoked in the order generate, channelize,
\* synthesize, each at most once, whatever is sent and also after a failure.
C5_StagesInOrderOnce ==
    \A p \in Producers :
        \A a, b \in 1..Len(p.calls) :
            a < b => StageOf(p.calls[a]) < StageOf(p.calls[b])

\* A producer whose generate stage failed and that was sent to again.
C5_Witness ==
    \E p \in Producers : Len(p.calls) >= 1 /\ Len(p.sends) >= 2 /\ p.pc = "failed"

\* C6: once the generate tuple and then the channelize tuple were sent, the
\* channelize stage was invoked with the generate stage's output path followed
\* by the caller's three arguments.
C6_ChannelizeGetsInputPath ==
    \A p \in Producers :
        (Documented(p, 2) /\ NoToolFailure(p)) =>
            /\ ~p.input_file_path.nil
            /\ \E k \in 1..Len(p.calls) :
                  /\ p.calls[k].callee = "_channelize"
                  /\ p.calls[k].args = <<PathArg(p.input_file_path)>> \o ChanTuple

\* C7: once the three tuples were sent, the synthesize operation was invoked
\* with the channelized output path followed by the caller's argument, and its
\* result is the final output path.
C7_SynthesizeInvoked ==
    \A p \in Producers :
        (Documented(p, 3) /\ NoToolFailure(p)) =>
            /\ ~p.channelized_file_path.nil
            /\ ~p.synthesized_file_path.nil
            /\ \E k \in 1..Len(p.calls) :
                  /\ p.calls[k].callee = "_synthesize"
                  /\ p.calls[k].args = <<PathArg(p.channelized_file_path)>> \o SynTuple

\* C8: before DONE and in FAILED the producer's meta_data is None and no record
\* is on disk for the key of a miss; metadata that is exposed has the three
\* file fields.
C8_NoPartialMetadata ==
    \A p \in Producers :
          /\ p.pc \notin {"done", "hit"} => p.meta_data = NoneV
          /\ (OnMiss(p) /\ p.pc # "done") => RecordOf(p) \notin DOMAIN files
          /\ p.meta_data # NoneV => FileFields \subseteq DOMAIN p.meta_data

\* A producer in FAILED after a send, and one suspended before any stage.
C8_Witness ==
    /\ \E p \in Producers : p.pc = "failed" /\ OnMiss(p) /\ Len(p.sends) >= 1
    /\ \E p \in Producers : p.pc = "yield_gen"

\* C9: at the end of the documented run the Metadata is the parameters given
\* at construction plus the basenames of the three stage outputs.
C9_MetadataContents ==
    \A p \in Producers :
        (Documented(p, 3) /\ NoToolFailure(p)) =>
            /\ ~p.input_file_path.nil
            /\ ~p.channelized_file_path.nil
            /\ ~p.synthesized_file_path.nil
            /\ p.meta_data =
                 p.params @@ [input_file       |-> Basename(p.input_file_path),
                              channelized_file |-> Basename(p.channelized_file_path),
                              inverted_file    |-> Basename(p.synthesized_file_path)]

\* C10: in the documented usage every send() returns normally and meta_data is
\* set after the third.
C10_DocumentedUsageReturns ==
    \A p \in Producers :
        Documented(p, 1) =>
            /\ \A k \in 1..Len(p.sends) : p.sends[k] = "none"
            /\ Len(p.sends) = Len(DocTuples) => p.meta_data # NoneV

C12_PythonStagesNotImplemented ==
    (pure.op = "stage" /\ pure.in.backend = "python") =>
        /\ pure.out.exc = "NotImplementedError"
        /\ pure.out.created = {}

\* C13: when the external process of the stage that the documented first send
\* asks for returns a non-zero exit status, that send raises the error of the
\* failed process, the producer is in FAILED with meta_data None, no record is
\* written and the cache subdirectory remains.
C13_ToolFailureRaisedToSender ==
    [][\A i \in 1..Len(prods) :
          (/\ Len(prods') = Len(prods)
           /\ prods[i].pc = "yield_gen"
           /\ prods'[i] = Resume(prods[i], GenTuple, 1).self) =>
              /\ prods'[i].sends = <<"RuntimeError">>
              /\ prods'[i].pc = "failed"
              /\ prods'[i].meta_data = NoneV
              /\ RecordOf(prods'[i]) \notin DOMAIN files'
              /\ Resolve(cwd, prods'[i].sub_dir_full) \in dirs']_vars

\* The record inside a cache subdirectory is missing or does not decode.
RecordUnusable(d) == RecordIn(d) \notin DOMAIN files \/ ~files[RecordIn(d)].json

\* C14: a lookup that found the subdirectory of its key, while the record
\* inside is missing or undecodable, failed with an error and gave no metadata.
C14_UnusableRecordFailsLookup ==
    /\ (found.hit /\ RecordUnusable(found.sub_dir_full)) =>
          (found.exc # "none" /\ found.value = NoneV)
    /\ \A p \in Producers :
          (p.opened # NonePath /\ RecordUnusable(Resolve(cwd, p.sub_dir_full))) =>
              (p.ctor \notin {"returned", "StopIteration"} /\ p.meta_data = NoneV)

\* C15: a lookup given the values as a sequence in the domain's order and a
\* lookup given them as a mapping have the same result, for the key the
\* producer formats from the mapping.
C15_SequenceAndMappingSameKey ==
    pure.op = "key" =>
        /\ pure.out.by_sequence = pure.out.by_mapping
        /\ pure.out.by_sequence.sub_dir_full = pure.out.sub_dir_full_b

\* A lookup by sequence of a freq key whose phase and bin_offset differ, which
\* found the subdirectory.
C15_Witness ==
    /\ pure.op = "key"
    /\ pure.in.dom = "freq"
    /\ pure.in.b.phase # pure.in.b.bin_offset
    /\ pure.out.by_sequence.hit

\* Every value of a and b formats to the same 3-decimal string.
AllFormattedEqual(dom, a, b) ==
    \A i \in 1..Len(arg_order[dom]) : F3(a[arg_order[dom][i]]) = F3(b[arg_order[dom][i]])

\* C16: parameter sets whose values all format alike have the same cache
\* subdirectory, so a lookup of the second finds the subdirectory of the
\* first; sets that differ in a formatted value have different subdirectories.
C16_KeyIsFormattedValues ==
    pure.op = "key" =>
        /\ AllFormattedEqual(pure.in.dom, pure.in.a, pure.in.b) =>
              /\ pure.out.sub_dir_full_a = pure.out.sub_dir_full_b
              /\ pure.out.by_mapping.hit
        /\ ~AllFormattedEqual(pure.in.dom, pure.in.a, pure.in.b) =>
              pure.out.sub_dir_full_a # pure.out.sub_dir_full_b

\* Two different parameter sets that format alike, the second looked up.
C16_Witness ==
    /\ pure.op = "key"
    /\ pure.in.a # pure.in.b
    /\ AllFormattedEqual(pure.in.dom, pure.in.a, pure.in.b)
    /\ pure.out.by_mapping.hit

\* C17 as stated: the values appear in the subdirectory name in the order of
\* the positional parameters handed to the generator.
C17_NameOrderIsPositionalOrder ==
    pure.op = "key" =>
        pure.out.sub_dir_a.vals =
            [i \in 1..Len(pure.out.vector_params) |-> F3(Val(pure.out.vector_params[i]))]

\* C17 amended: the positional parameters are (offset, width) and (frequency,
\* phase, bin_offset), which is also the order in which a lookup reads a
\* sequence; the subdirectory name lists (offset, width) and (frequency,
\* bin_offset, phase).
C17_OrdersPerDomain ==
    pure.op = "key" =>
        /\ [i \in 1..Len(pure.out.vector_params) |-> Val(pure.out.vector_params[i])]
              = AsSequence(pure.in.dom, pure.in.a)
        /\ ParamsDict(pure.in.dom, Sequence(AsSequence(pure.in.dom, pure.in.a))) = pure.in.a
        /\ pure.in.dom = "time" =>
              pure.out.sub_dir_a.vals = <<F3(pure.in.a.offset), F3(pure.in.a.width)>>
        /\ pure.in.dom = "freq" =>
              pure.out.sub_dir_a.vals = <<F3(pure.in.a.frequency), F3(pure.in.a.bin_offset),
                                          F3(pure.in.a.phase)>>

\* The key of a freq parameter set whose phase and bin_offset format apart.
C17_Witness ==
    /\ pure.op = "key"
    /\ pure.in.dom = "freq"
    /\ F3(pure.in.a.phase) # F3(pure.in.a.bin_offset)

\* The default name of the claim for a call of the generator.
ExpectedDefaultName(in, ext) ==
    [fmt  |-> "{func_name}.{n_bins}.{args}.{n_pol}.{dtype}.{backend}",
     vals |-> <<Tok(IF in.da.dom = "time" THEN "time_domain_impulse" ELSE "complex_sinusoid"),
                in.n_bins,
                [s |-> "join", n |-> 0, sep |-> "-",
                 items |-> [k \in 1..Len(in.da.args) |-> F3(Val(in.da.args[k]))]],
                in.n_pol,
                Tok(IF in.dtype.s \in {"np.float32", "np.complex64"} THEN "single" ELSE "double"),
                Tok(in.backend)>>,
     ext  |-> ext]

\* C18: without an output file name, the file a call of the generator returns
\* is <function>.<n>.<args>.<n_pol>.<dtype tag>.<backend>.dump in output_dir,
\* and the log file the matlab backend opens has the same base and .log.
C18_DefaultOutputFileName ==
    (pure.op = "generate" /\ pure.in.output_file_name = NoneV) =>
        /\ pure.out.exc = "none" =>
              /\ pure.out.value =
                    Join(pure.in.output_dir, RelPath(<<ExpectedDefaultName(pure.in, ".dump")>>))
              /\ pure.out.value \in pure.out.created
        /\ (pure.in.backend = "matlab" /\ pure.out.exc \in {"none", "RuntimeError"}) =>
              Join(pure.in.output_dir, RelPath(<<ExpectedDefaultName(pure.in, ".log")>>))
                  \in pure.out.created

\* A double-precision freq vector generated by the matlab backend under the
\* default name.
C18_Witness ==
    /\ pure.op = "generate"
    /\ pure.in.output_file_name = NoneV
    /\ pure.in.backend = "matlab"
    /\ pure.in.da.dom = "freq"
    /\ pure.in.dtype = Tok("np.complex128")
    /\ pure.out.exc = "none"

\* C19: with an output file name given, the file a call of the generator
\* returns is that name in output_dir, not the default name.
C19_GivenOutputFileName ==
    (pure.op = "generate" /\ pure.in.output_file_name # NoneV /\ pure.out.exc = "none") =>
        /\ pure.out.value = Join(pure.in.output_dir, RelPath(<<pure.in.output_file_name>>))
        /\ pure.out.value \in pure.out.created
        /\ Basename(pure.out.value) # ExpectedDefaultName(pure.in, ".dump")

\* A freq vector generated by the python backend under a given name.
C19_Witness ==
    /\ pure.op = "generate"
    /\ pure.in.output_file_name \in GivenNames
    /\ pure.in.backend = "python"
    /\ pure.in.da.dom = "freq"
    /\ pure.out.exc = "none"

\* C20: the bin of a tone is an integer nearest to n*freqs[i].
C20_BinIsNearestInteger ==
    pure.op = "sinusoid" =>
        /\ pure.out.bin * 10000 - pure.in.n * pure.in.freq <= 5000
        /\ pure.in.n * pure.in.freq - pure.out.bin * 10000 <= 5000
        /\ pure.out.tone = pure.out.bin * 10000 + pure.in.bin_offset

\* The sample at index j lies in the impulse i of the call.
InImpulse(in, i, j) ==
    /\ (in.offsets.items[i] * in.n) \div 10000 <= j
    /\ j < (in.offsets.items[i] * in.n) \div 10000 + in.widths.items[i]

\* C21: for offsets and widths of equal length, time_domain_impulse returns n
\* samples, sample j being 1 exactly when some impulse i has
\* floor(offsets[i]*n) <= j < floor(offsets[i]*n) + widths[i] and 0 otherwise,
\* also where impulses overlap; scalars behave as one-element lists.
C21_ImpulsePlacement ==
    (/\ pure.op = "impulse"
     /\ pure.in.offsets.iter = pure.in.widths.iter
     /\ Len(pure.in.offsets.items) = Len(pure.in.widths.items)) =>
        /\ pure.out.exc = "none"
        /\ Len(pure.out.sig) = pure.in.n
        /\ \A j \in 0..(pure.in.n - 1) :
              pure.out.sig[j + 1] =
                  IF \E i \in 1..Len(pure.in.offsets.items) : InImpulse(pure.in, i, j)
                  THEN 1 ELSE 0
        /\ ~pure.in.offsets.iter =>
              pure.out = time_domain_impulse(pure.in.n, List(pure.in.offsets.items),
                                             List(pure.in.widths.items))

\* Two impulses given as lists that overlap in a sample.
C21_Witness ==
    /\ pure.op = "impulse"
    /\ pure.out.exc = "none"
    /\ pure.in.offsets.iter /\ pure.in.widths.iter
    /\ Len(pure.in.offsets.items) = 2 /\ Len(pure.in.widths.items) = 2
    /\ \E j \in 0..(pure.in.n - 1) : InImpulse(pure.in, 1, j) /\ InImpulse(pure.in, 2, j)

\* C22: after the documented first send (n_pol, n, rest...) the generator has
\* been invoked with the positional arguments (n, p_1, ..., p_k, rest...), the
\* p_i being the key's parameters in the domain's order, the call was accepted
\* and the path of its output file is held.
C22_GeneratorCallWellFormed ==
    \A p \in Producers :
        Documented(p, 1) =>
            /\ \E k \in 1..Len(p.calls) :
                  /\ p.calls[k].callee = "_generate_test_vector"
                  /\ p.calls[k].exc = "none"
                  /\ p.calls[k].args =
                        <<GenTuple[2]>> \o VectorParams(p) \o SubSeq(GenTuple, 3, Len(GenTuple))
            /\ ~p.input_file_path.nil

\* C23: when the constructor has returned, which it does on a miss only, the
\* cache subdirectory of the key exists, the generator is suspended awaiting
\* the generate arguments, no stage has been invoked, no record has been read
\* and meta_data is None.
C23_MissConstructionInit ==
    \A p \in Producers :
        (p.ctor = "returned" /\ p.sends = <<>>) =>
            /\ Resolve(cwd, p.sub_dir_full) \in dirs
            /\ p.pc = "yield_gen"
            /\ p.calls = <<>>
            /\ p.opened = NonePath
            /\ p.meta_data = NoneV
            /\ p.l_meta_data = p.params

\* A producer constructed on a miss and not yet sent to.
C23_Witness ==
    \E p \in Producers : p.ctor = "returned" /\ p.sends = <<>> /\ OnMiss(p)

\* C25: two producers of one key that both passed the existence test as a miss
\* and both went on to create the subdirectory did not both succeed: the later
\* os.makedirs raised FileExistsError out of its constructor.
C25_RacingCreationFails ==
    \A i, k \in 1..Len(prods) :
        (/\ i # k
         /\ prods[i].sub_dir_full = prods[k].sub_dir_full
         /\ OnMiss(prods[i]) /\ OnMiss(prods[k])
         /\ prods[i].pc # "makedirs" /\ prods[k].pc # "makedirs") =>
            /\ prods[i].ctor = "FileExistsError" \/ prods[k].ctor = "FileExistsError"
            /\ prods[i].ctor = "FileExistsError" =>
                  (prods[i].calls = <<>> /\ prods[i].meta_data = NoneV)

\* Both requests saw a miss; one made the subdirectory, the other failed on it.
C25_Witness ==
    \E i, k \in 1..Len(prods) :
        /\ i # k
        /\ prods[i].sub_dir_full = prods[k].sub_dir_full
        /\ OnMiss(prods[i]) /\ OnMiss(prods[k])
        /\ prods[i].ctor = "returned"
        /\ prods[k].ctor = "FileExistsError"

\* C26: a lookup leaves the directories and files as they are, and one that
\* does not find the subdirectory of its key returns None without opening a
\* file; a directory appears only when a producer's constructor makes it.
C26_LookupLeavesFilesystem ==
    [][/\ found' # found =>
            /\ dirs' = dirs /\ files' = files
            /\ ~found'.hit =>
                  /\ found'.value = NoneV /\ found'.exc = "none"
                  /\ found'.opened = NonePath
                  /\ found'.sub_dir_full \notin dirs'
       /\ dirs' # dirs =>
            \E i \in 1..Len(prods) :
                /\ prods[i].pc = "makedirs"
                /\ prods'[i].pc = "yield_gen"
                /\ dirs' = dirs \cup MakedirsDirs(cwd, prods[i].sub_dir_full)]_vars

\* A lookup that missed.
C26_Witness == found.called /\ ~found.hit /\ found.sub_dir_full \notin dirs

\* C24: the command line of an external process has one token per argument,
\* in the order (handler, size, comma-joined arguments, datatype tag,
\* polarization count, header template, output file, output directory, 1) for
\* the generator and (input path, channels, oversampling ratio, filter path,
\* output file name, output directory, 1) for channelize.
C24_CommandTokens ==
    /\ (pure.op = "generate" /\ pure.in.backend = "matlab"
          /\ pure.out.exc \in {"none", "RuntimeError"}) =>
            Tail(pure.out.cmd) =
                <<<<Tok(IF pure.in.da.dom = "time" THEN "time_domain_impulse"
                        ELSE "complex_sinusoid")>>,
                  <<pure.in.n_bins>>,
                  <<[s |-> "join", n |-> 0, sep |-> ",",
                     items |-> [k \in 1..Len(pure.in.da.args) |-> F3(Val(pure.in.da.args[k]))]]>>,
                  <<Tok(IF pure.in.dtype.s \in {"np.float32", "np.complex64"}
                        THEN "single" ELSE "double")>>,
                  <<pure.in.n_pol>>,
                  <<HeaderTemplate>>,
                  <<IF pure.in.output_file_name = NoneV
                    THEN ExpectedDefaultName(pure.in, ".dump")
                    ELSE pure.in.output_file_name>>,
                  <<pure.in.output_dir>>,
                  <<Tok("1")>>>>
    /\ (pure.op = "stage" /\ pure.in.backend = "matlab" /\ pure.in.which = "channelize"
          /\ pure.out.created # {}) =>
            Tail(pure.out.cmd) =
                <<<<pure.in.sargs[1]>>, <<pure.in.sargs[2]>>, <<pure.in.sargs[3]>>,
                  <<pure.in.sargs[4]>>, <<ChannelizeOutputName(pure.in.sargs)>>,
                  <<pure.in.output_dir>>, <<Tok("1")>>>>

\* C27: a send to a producer that is in DONE or FAILED invokes no stage,
\* creates no file or directory, leaves meta_data and the state as they are,
\* and only raises StopIteration to the caller.
C27_DoneFailedAbsorbing ==
    [][\A i \in 1..Len(prods) :
          prods[i].pc \in {"done", "failed"} =>
              /\ prods'[i].pc = prods[i].pc
              /\ prods'[i].calls = prods[i].calls
              /\ prods'[i].meta_data = prods[i].meta_data
              /\ prods'[i] # prods[i] =>
                    /\ files' = files
                    /\ dirs' = dirs
                    /\ prods'[i].sends = Append(prods[i].sends, "StopIteration")]_vars

\* A producer whose first send raised and that was sent to again in FAILED.
C27_Witness ==
    \E p \in Producers :
        /\ p.pc = "failed"
        /\ Len(p.sends) >= 2
        /\ p.sends[1] \notin {"none", "StopIteration"}
        /\ p.sends[Len(p.sends)] = "StopIteration"

====
